---- MODULE Spec2Model ----
(***************************************************************************)
(* A model of the Telegram bot in src/main.py: the message dispatcher,     *)
(* the Instagram download orchestrator (instaloader, then yt-dlp), the     *)
(* delivery blocks of handle_instagram_link and handle_music_callback, and *)
(* the in-memory music_cache.                                              *)
(*                                                                         *)
(* Texts, URLs and file names are sequences of tokens, so that substring   *)
(* tests, regular expressions, globs and splitext are computed, not        *)
(* assumed.  The handlers in flight are a bag of runs; the event loop      *)
(* interleaves them at their awaits, and the blocking library calls run in *)
(* executor threads, one step at a time.                                   *)
(***************************************************************************)
EXTENDS Naturals, Sequences, FiniteSets, Bags

\* ------------------------------------------------------------------ bounds
\* handlers that can be in flight at the same time
NumSlots == 2
\* longest text, in tokens, the classifier is checked on
MaxTextLen == 4
\* most entries one search returns
MaxEntries == 2

\* ------------------------------------------------------------------ tokens
IG == "instagram.com"
\* characters of [A-Za-z0-9_-]
CodeTok == {"A", "B", "1"}
\* characters of \d
DigitTok == {"1"}
\* tokens that hold a '/'
SlashTok == {"/", "/p/", "/reel/", "/reels/", "/tv/", "/stories/", "/start"}
\* whitespace
Space == " "
\* len() of a token
TokLen(tok) ==
    CASE tok = IG -> 13
      [] tok = "/stories/" -> 9
      [] tok = "/reels/" -> 7
      [] tok \in {"/reel/", "/start"} -> 6
      [] tok = "/tv/" -> 4
      [] tok = "/p/" -> 3
      [] OTHER -> 1

\* len() of a text
RECURSIVE StrLen(_)
StrLen(text) == IF text = << >> THEN 0 ELSE TokLen(Head(text)) + StrLen(Tail(text))

\* Python's None, and every other falsy value a path variable can take
None == << >>

\* ---------------------------------------------------------- text helpers
Contains(text, tok) == \E i \in 1 .. Len(text) : text[i] = tok

RECURSIVE LStrip(_)
LStrip(text) ==
    IF text # << >> /\ Head(text) = Space THEN LStrip(Tail(text)) ELSE text

RECURSIVE RStrip(_)
RStrip(text) ==
    IF text # << >> /\ text[Len(text)] = Space
    THEN RStrip(SubSeq(text, 1, Len(text) - 1))
    ELSE text

\* str.strip()
Strip(text) == RStrip(LStrip(text))

\* the longest run of tokens of set S that starts at position i
RECURSIVE Run(_, _, _)
Run(text, i, S) ==
    IF i <= Len(text) /\ text[i] \in S
    THEN <<text[i]>> \o Run(text, i + 1, S)
    ELSE << >>

\* re.search(r'instagram\.com<dir>([A-Za-z0-9_-]+)', url): group 1 of the
\* leftmost match, None without a match
SearchCode(url, dir) ==
    LET hits == {i \in 1 .. Len(url) :
                    /\ url[i] = IG
                    /\ i + 2 <= Len(url)
                    /\ url[i + 1] = dir
                    /\ url[i + 2] \in CodeTok}
    IN  IF hits = {} THEN None
        ELSE LET i == CHOOSE j \in hits : \A k \in hits : j <= k
             IN  Run(url, i + 2, CodeTok)

\* re.search(r'instagram\.com/stories/[^/]+/(\d+)', url)
SearchStory(url) ==
    LET user(i) == Run(url, i + 2, {url[k] : k \in 1 .. Len(url)} \ SlashTok)
        hits == {i \in 1 .. Len(url) :
                    /\ url[i] = IG
                    /\ i + 1 <= Len(url)
                    /\ url[i + 1] = "/stories/"
                    /\ user(i) # << >>
                    /\ i + 2 + Len(user(i)) + 1 <= Len(url)
                    /\ url[i + 2 + Len(user(i))] = "/"
                    /\ url[i + 2 + Len(user(i)) + 1] \in DigitTok}
    IN  IF hits = {} THEN None
        ELSE LET i == CHOOSE j \in hits : \A k \in hits : j <= k
             IN  Run(url, i + 2 + Len(user(i)) + 1, DigitTok)

\* the five patterns, tried in this order
extract_shortcode(url) ==
    IF SearchCode(url, "/p/") # None THEN SearchCode(url, "/p/")
    ELSE IF SearchCode(url, "/reel/") # None THEN SearchCode(url, "/reel/")
    ELSE IF SearchCode(url, "/reels/") # None THEN SearchCode(url, "/reels/")
    ELSE IF SearchCode(url, "/tv/") # None THEN SearchCode(url, "/tv/")
    ELSE SearchStory(url)

\* ------------------------------------------------------------ dispatcher
\* CommandStart(): the first whitespace-separated word of the text is /start
CommandStart(text) ==
    LET t == LStrip(text)
    IN  /\ t # << >>
        /\ t[1] = "/start"
        /\ (Len(t) = 1 \/ t[2] = Space)

\* F.text.contains("instagram.com")
IsInstagramText(text) == Contains(text, IG)

\* F.text
IsText(text) == text # << >>

\* len(query) < 2
TooShort(query) == StrLen(query) < 2

\* query.startswith('/')
IsCommandLike(query) == query # << >> /\ query[1] \in SlashTok

\* the dispatcher with handle_music_search registered before
\* handle_instagram_link
DispatchTextFirst(text) ==
    IF CommandStart(text) THEN "cmd_start"
    ELSE IF IsText(text) THEN "handle_music_search"
    ELSE IF IsInstagramText(text) THEN "handle_instagram_link"
    ELSE "unhandled"

\* The dispatcher calls the first registered handler whose filter passes:
\* cmd_start, handle_instagram_link, handle_music_search, in this order.
Dispatch(text) ==
    IF CommandStart(text) THEN "cmd_start"
    ELSE IF IsInstagramText(text) THEN "handle_instagram_link"
    ELSE IF IsText(text) THEN "handle_music_search"
    ELSE "unhandled"

\* ------------------------------------------------------------ file names
\* A file of DOWNLOAD_DIR is its name: the tokens of its stem and, last, its
\* extension.
Ext(f) == f[Len(f)]

\* os.path.splitext(path)[0]
Stem(f) == SubSeq(f, 1, Len(f) - 1)

\* str.lower() on an extension
Lower(e) ==
    CASE e = ".MP4" -> ".mp4"
      [] e = ".JPG" -> ".jpg"
      [] OTHER -> e

VideoExts == {".mp4", ".mkv", ".mov"}
PhotoExts == {".jpg", ".jpeg", ".png", ".webp"}

\* filename.lower().endswith(('.mp4', '.mkv', '.mov'))
IsVideo(f) == Lower(Ext(f)) \in VideoExts

\* a choice that knows videos only
SendKindVideoOnly(f) ==
    IF IsVideo(f) THEN "answer_video" ELSE "answer_document"

\* the send call handle_instagram_link chooses for a file
SendKind(f) ==
    IF IsVideo(f) THEN "answer_video"
    ELSE IF Lower(Ext(f)) \in PhotoExts THEN "answer_photo"
    ELSE "answer_document"

\* f"{base_path}_audio.mp3"
AudioPath(f) == Stem(f) \o <<"_audio", ".mp3">>

\* `filename and os.path.exists(filename)`
FileOk(f, files) == f # None /\ f \in files

\* glob.glob(os.path.join(DOWNLOAD_DIR, f"{shortcode}*.{ext}"))
Glob(files, shortcode, ext) ==
    {f \in files : /\ Len(f) > Len(shortcode)
                   /\ SubSeq(f, 1, Len(shortcode)) = shortcode
                   /\ Ext(f) = ext}

\* glob.glob(os.path.join(DOWNLOAD_DIR, f"{shortcode}*")), without the
\* names that end in .txt, .json or .xz
GlobMedia(files, shortcode) ==
    {f \in files : /\ Len(f) >= Len(shortcode)
                   /\ SubSeq(f, 1, Len(shortcode)) = shortcode
                   /\ Ext(f) \notin {".txt", ".json", ".xz"}}

GlobOrder == <<".mp4", ".jpg", ".jpeg", ".png", ".webp">>

\* What download_with_instaloader can return after download_post: files[0]
\* of the first extension with a match (glob gives the names in no promised
\* order, so any match can be first), else any media file with the prefix,
\* else None.
FoundFiles(files, shortcode) ==
    LET hits == {i \in 1 .. Len(GlobOrder) : Glob(files, shortcode, GlobOrder[i]) # {}}
    IN  IF hits # {}
        THEN Glob(files, shortcode, GlobOrder[CHOOSE i \in hits : \A j \in hits : i <= j])
        ELSE IF GlobMedia(files, shortcode) # {}
        THEN GlobMedia(files, shortcode)
        ELSE {None}

\* The posts behind the links: the post A is a photo, every other one a
\* video.  download_post writes a photo as .jpg and a video as .mp4; yt-dlp
\* downloads videos only, as .mp4.
PhotoPosts == {<<"A">>}

InstaExt(shortcode) == IF shortcode \in PhotoPosts THEN ".jpg" ELSE ".mp4"

\* ------------------------------------------------------------ music keys
\* Track identifiers a search can return.  The first two are a real pair:
\* md5("uCLQlPRN6fR") and md5("edoRY_N4Heg") both start with b7802d539d.
VideoIds == {"uCLQlPRN6fR", "edoRY_N4Heg", "dQw4w9WgXcQ"}

\* hashlib.md5(video_id.encode()).hexdigest()[:10]
ShortKey(video_id) ==
    CASE video_id = "uCLQlPRN6fR" -> "b7802d539d"
      [] video_id = "edoRY_N4Heg" -> "b7802d539d"
      [] video_id = "dQw4w9WgXcQ" -> "1b4237f476"

\* f"https://www.youtube.com/watch?v={video_id}"
WatchUrl(video_id) == <<"https://www.youtube.com/watch?v=", video_id>>

\* the id yt-dlp reads back from a watch URL
UrlId(url) == url[2]

\* os.path.join(DOWNLOAD_DIR, f"{video_id}.mp3")
Mp3Path(video_id) == <<video_id, ".mp3">>

\* -------------------------------------------------------------- inputs
\* every text of at most MaxTextLen tokens
Alphabet == {IG, "/p/", "/stories/", "/", "/start", "A", "1", Space}

RECURSIVE TextsOfLen(_)
TextsOfLen(n) ==
    IF n = 0 THEN {<< >>}
    ELSE {<<a>> \o t : a \in Alphabet, t \in TextsOfLen(n - 1)}

AllTexts == UNION {TextsOfLen(n) : n \in 1 .. MaxTextLen}

\* the messages the concurrent model receives: a post, a reel whose
\* shortcode extends the post's, a story, a link without a shortcode, a
\* search query, a one-letter text, /start and a stray command
Texts ==
    { <<IG, "/p/", "A">>,
      <<IG, "/reel/", "A", "B">>,
      <<IG, "/stories/", "A", "/", "1">>,
      <<"A", Space, IG>>,
      <<"A", "B">>,
      <<"A">>,
      <<"/start">>,
      <<"/", "A">> }

\* result lists of a search: at most MaxEntries track identifiers, each
\* named once
RECURSIVE EntriesOfLen(_)
EntriesOfLen(n) ==
    IF n = 0 THEN {<< >>}
    ELSE {<<v>> \o e : v \in VideoIds, e \in EntriesOfLen(n - 1)}

NoRepeat(e) == \A i, j \in 1 .. Len(e) : e[i] = e[j] => i = j

Entries == {e \in UNION {EntriesOfLen(n) : n \in 0 .. MaxEntries} : NoRepeat(e)}

\* ---------------------------------------------------------------- state
VARIABLES
    \* the bag of handler runs: each run is its handler, its position and
    \* its local variables
    h,
    \* the names of the files in DOWNLOAD_DIR
    disk,
    \* music_cache: short key -> {url, title, artist}
    music_cache,
    \* the (key, track) buttons this process has shown in the chat
    buttons

vars == <<h, disk, music_cache, buttons>>

\* The locals of a run before its handler has set them.  The fields after
\* songs are not variables of the code: they record what the run did.
\*   insta, yt  what each download attempt gave: "" (not called), "none",
\*              "missing" (a path that is not on disk) or "ok"
\*   sends      the send calls issued, in order
\*   results    how each completed send ended: "ok" or "raised"
\*   left       which of the run's own files are on disk when it finishes
Idle ==
    [handler |-> "", pc |-> "idle", text |-> << >>,
     filename |-> None, audio_path |-> None, status_msg |-> "",
     short_key |-> "", video_id |-> "", song_info |-> None, songs |-> << >>,
     insta |-> "", yt |-> "", sends |-> << >>, results |-> << >>,
     left |-> {}]

\* the message a handler was called with, stripped
Url(r) == Strip(r.text)

\* the runs there are
Runs == BagToSet(h)

\* the dispatcher has room for another run
Room == BagCardinality(h) < NumSlots

\* a new run starts
Add(rec) == h' = h (+) SetToBag({rec})

\* run r goes on as rec
Put(r, rec) == h' = (h (-) SetToBag({r})) (+) SetToBag({rec})

Init ==
    /\ h = EmptyBag
    /\ disk = {}
    /\ music_cache = [k \in {} |-> None]
    /\ buttons = {}

\* which of the run's own files are on disk: the downloaded file, the
\* extracted audio
Own(rec, files) ==
    {k \in {"file", "audio"} :
        \/ k = "file" /\ rec.filename \in files
        \/ k = "audio" /\ rec.audio_path \in files}

\* a finally block that removes nothing
FinallyKeep(f, files) == files

\* the finally block, `if os.path.exists(filename): os.remove(filename)`
Finally(f, files) == files \ {f}

\* the end of a run: the handler returns, or its exception leaves it; its
\* locals are dropped and only the record of what it did is kept
Finish(rec, files) ==
    [Idle EXCEPT !.handler = rec.handler, !.pc = "done",
                 !.status_msg = rec.status_msg, !.sends = rec.sends,
                 !.results = rec.results, !.left = Own(rec, files)]

\* --------------------------------------------------- receiving a message
\* What the called handler does up to its first await on an executor; a
\* handler that starts no work ends here.
FirstStep(text) ==
    LET who == Dispatch(text)
        base == [Idle EXCEPT !.handler = who, !.text = text]
    IN  CASE who = "handle_instagram_link" ->
               [base EXCEPT !.pc = "download_with_instaloader",
                            !.status_msg = "downloading"]
          [] who = "handle_music_search" ->
               IF TooShort(Strip(text)) \/ IsCommandLike(Strip(text))
               THEN [base EXCEPT !.pc = "done", !.status_msg = "ignored"]
               ELSE [base EXCEPT !.pc = "search_music",
                                 !.status_msg = "searching"]
          [] OTHER -> [base EXCEPT !.pc = "done", !.status_msg = "greeting"]

Receive(text) ==
    /\ Room
    /\ Add(FirstStep(text))
    /\ UNCHANGED <<disk, music_cache, buttons>>

\* ------------------------------------------- download_instagram_content
\* download_with_instaloader up to the end of download_post: None without a
\* shortcode, for a story and on any exception; else the post's file is
\* written under the name {shortcode}.{ext}.
InstaloaderDownload(r) ==
    /\ r.pc = "download_with_instaloader"
    /\ \/ /\ Put(r, [r EXCEPT !.pc = "download_with_ytdlp", !.insta = "none"])
          /\ UNCHANGED disk
       \/ /\ extract_shortcode(Url(r)) # None
          /\ ~Contains(Url(r), "/stories/")
          /\ disk' = disk \cup {extract_shortcode(Url(r))
                                    \o <<InstaExt(extract_shortcode(Url(r)))>>}
          /\ Put(r, [r EXCEPT !.pc = "glob"])
    /\ UNCHANGED <<music_cache, buttons>>

\* the globs of download_with_instaloader and its return
InstaloaderGlob(r) ==
    /\ r.pc = "glob"
    /\ \E f \in FoundFiles(disk, extract_shortcode(Url(r))) :
          Put(r, IF f = None
                 THEN [r EXCEPT !.pc = "download_with_ytdlp", !.insta = "none"]
                 ELSE [r EXCEPT !.pc = "check_instaloader", !.filename = f])
    /\ UNCHANGED <<disk, music_cache, buttons>>

\* the first attempt's test without os.path.exists
UseInstaloaderUnchecked(f, files) == f # None

\* `if filename and os.path.exists(filename): return filename`, first attempt
UseInstaloader(f, files) == FileOk(f, files)

CheckInstaloader(r) ==
    /\ r.pc = "check_instaloader"
    /\ LET seen == IF r.filename \in disk THEN "ok" ELSE "missing"
       IN  Put(r, IF UseInstaloader(r.filename, disk)
                  THEN [r EXCEPT !.pc = "deliver", !.insta = seen]
                  ELSE [r EXCEPT !.pc = "download_with_ytdlp",
                                    !.insta = seen, !.filename = None])
    /\ UNCHANGED <<disk, music_cache, buttons>>

\* download_with_ytdlp: None on any exception (a text that names no media
\* raises); else the file is written as {id}.{ext}, the id being the
\* shortcode, and prepare_filename gives that name.
YtdlpDownload(r) ==
    /\ r.pc = "download_with_ytdlp"
    /\ \/ /\ Put(r, [r EXCEPT !.pc = "deliver", !.yt = "none",
                                 !.filename = None])
          /\ UNCHANGED disk
       \/ /\ extract_shortcode(Url(r)) \notin PhotoPosts \cup {None}
          /\ LET f == extract_shortcode(Url(r)) \o <<".mp4">>
             IN  /\ disk' = disk \cup {f}
                 /\ Put(r, [r EXCEPT !.pc = "check_ytdlp", !.filename = f])
    /\ UNCHANGED <<music_cache, buttons>>

\* `if filename and os.path.exists(filename): return filename`, second
\* attempt; else return None
UseYtdlp(f, files) == FileOk(f, files)

CheckYtdlp(r) ==
    /\ r.pc = "check_ytdlp"
    /\ LET seen == IF r.filename \in disk THEN "ok" ELSE "missing"
       IN  Put(r, IF UseYtdlp(r.filename, disk)
                  THEN [r EXCEPT !.pc = "deliver", !.yt = seen]
                  ELSE [r EXCEPT !.pc = "deliver", !.yt = seen,
                                    !.filename = None])
    /\ UNCHANGED <<disk, music_cache, buttons>>

\* ------------------------------------------------- handle_instagram_link
\* a send reads the file while it is awaited: without the file it raises,
\* with it the request succeeds or a Telegram error raises
SendOutcomes(f, files) == IF f \in files THEN {"ok", "raised"} ELSE {"raised"}

\* line 381, and the send call chosen by the extension; the check and the
\* call are one step of the event loop
Deliver(r) ==
    /\ r.pc = "deliver"
    /\ Put(r, IF FileOk(r.filename, disk)
              THEN [r EXCEPT !.pc = "answer_primary",
                                !.insta = "", !.yt = "",
                                !.sends = <<SendKind(r.filename)>>]
              ELSE Finish([r EXCEPT !.status_msg = "download_failed"], disk))
    /\ UNCHANGED <<disk, music_cache, buttons>>

\* the awaited answer_video / answer_photo / answer_document ends
PrimarySent(r) ==
    /\ r.pc = "answer_primary"
    /\ \E result \in SendOutcomes(r.filename, disk) :
          Put(r, [r EXCEPT
                    !.results = <<result>>,
                    !.pc = IF result = "raised" THEN "except"
                           ELSE IF /\ IsVideo(r.filename)
                                   /\ \/ Contains(Url(r), "/reel/")
                                      \/ Contains(Url(r), "/reels/")
                                      \/ IsVideo(r.filename)
                           THEN "extract_reels_audio"
                           ELSE "status_delete"])
    /\ UNCHANGED <<disk, music_cache, buttons>>

\* extract_reels_audio in the executor: None without the video or when the
\* extraction raises or writes no mp3, else the mp3 next to the video
ExtractReelsAudio(r) ==
    /\ r.pc = "extract_reels_audio"
    /\ \/ /\ Put(r, [r EXCEPT !.pc = "audio_check", !.audio_path = None])
          /\ UNCHANGED disk
       \/ /\ FileOk(r.filename, disk)
          /\ disk' = disk \cup {AudioPath(r.filename)}
          /\ Put(r, [r EXCEPT !.pc = "audio_check",
                                 !.audio_path = AudioPath(r.filename)])
    /\ UNCHANGED <<music_cache, buttons>>

\* line 393 and the answer_audio call
AudioCheck(r) ==
    /\ r.pc = "audio_check"
    /\ Put(r, IF FileOk(r.audio_path, disk)
              THEN [r EXCEPT !.pc = "answer_audio",
                                !.sends = Append(@, "answer_audio")]
              ELSE [r EXCEPT !.pc = "status_delete"])
    /\ UNCHANGED <<disk, music_cache, buttons>>

\* the files left by lines 395-403 when answer_audio ends with r: the audio
\* file is removed after a send that returned
AfterAudio(result, audio, files) == IF result = "ok" THEN files \ {audio} ELSE files

\* the awaited answer_audio ends
AudioSent(r) ==
    /\ r.pc = "answer_audio"
    /\ \E result \in SendOutcomes(r.audio_path, disk) :
          /\ disk' = AfterAudio(result, r.audio_path, disk)
          /\ Put(r, [r EXCEPT
                       !.results = Append(@, result),
                       !.pc = IF result = "ok" THEN "status_delete" ELSE "except"])
    /\ UNCHANGED <<music_cache, buttons>>

\* `await status_msg.delete()`; when it returns the finally block runs and
\* the handler ends
StatusDelete(r) ==
    /\ r.pc = "status_delete"
    /\ \/ /\ disk' = Finally(r.filename, disk)
          /\ Put(r, Finish([r EXCEPT !.status_msg = "deleted"], disk'))
       \/ /\ Put(r, [r EXCEPT !.pc = "except"])
          /\ UNCHANGED disk
    /\ UNCHANGED <<music_cache, buttons>>

\* the except block: the status message is edited (or the edit raises too),
\* then the finally block runs and the handler ends
Except(r) ==
    /\ r.pc = "except"
    /\ disk' = Finally(r.filename, disk)
    /\ \E msg \in {"send_error", r.status_msg} :
          Put(r, Finish([r EXCEPT !.status_msg = msg], disk'))
    /\ UNCHANGED <<music_cache, buttons>>

\* --------------------------------------------------------- search_music
\* a cache that holds the latest entry only
CacheLatest(cache, video_id) ==
    [k \in {ShortKey(video_id)} |->
        [url |-> WatchUrl(video_id), title |-> video_id]]

\* music_cache[short_key] = {...} for one entry
CacheEntry(cache, video_id) ==
    [k \in DOMAIN cache \cup {ShortKey(video_id)} |->
        IF k = ShortKey(video_id)
        THEN [url |-> WatchUrl(video_id), title |-> video_id]
        ELSE cache[k]]

\* the loop of search_music over the entries, first to last
RECURSIVE CacheAll(_, _)
CacheAll(cache, entries) ==
    IF entries = << >> THEN cache
    ELSE CacheAll(CacheEntry(cache, Head(entries)), Tail(entries))

\* search_music in the executor: the entries found (none on an exception)
SearchMusic(r) ==
    /\ r.pc = "search_music"
    /\ \E e \in Entries :
          /\ music_cache' = CacheAll(music_cache, e)
          /\ Put(r, [r EXCEPT !.pc = "show_results", !.songs = e])
    /\ UNCHANGED <<disk, buttons>>

\* handle_music_search after the search: one button per song, with
\* callback_data "music:<key>"
ShowResults(r) ==
    /\ r.pc = "show_results"
    /\ buttons' = buttons \cup
          {<<ShortKey(r.songs[i]), r.songs[i]>> : i \in 1 .. Len(r.songs)}
    /\ Put(r, Finish([r EXCEPT
                  !.status_msg = IF r.songs = << >> THEN "nothing_found"
                                 ELSE "results"], disk))
    /\ UNCHANGED <<disk, music_cache>>

\* ------------------------------------------------ handle_music_callback
\* music_cache.get(short_key) finds an entry
CacheHit(cache, key) == key \in DOMAIN cache

\* a handler that shows the downloading status before it looks the key up
CallbackStartEager(cache, video_id) ==
    LET key == ShortKey(video_id)
        base == [Idle EXCEPT !.handler = "handle_music_callback",
                             !.short_key = key, !.video_id = video_id]
    IN  IF CacheHit(cache, key)
        THEN [base EXCEPT !.pc = "download_music", !.song_info = cache[key],
                          !.status_msg = "downloading"]
        ELSE [base EXCEPT !.pc = "done", !.status_msg = "downloading"]

\* handle_music_callback up to its await on the executor, for the button of
\* track video_id: without a cached entry it only answers the callback with
\* the alert and returns
CallbackStart(cache, video_id) ==
    LET key == ShortKey(video_id)
        base == [Idle EXCEPT !.handler = "handle_music_callback",
                             !.short_key = key, !.video_id = video_id]
    IN  IF CacheHit(cache, key)
        THEN [base EXCEPT !.pc = "download_music", !.song_info = cache[key],
                          !.status_msg = "downloading"]
        ELSE [base EXCEPT !.pc = "done", !.status_msg = "expired"]

\* The user selects the button of track video_id: one this process has
\* shown, or one still in the chat from an earlier process.
Select(video_id) ==
    /\ Room
    /\ Add(CallbackStart(music_cache, video_id))
    /\ UNCHANGED <<disk, music_cache, buttons>>

\* download_music in the executor: (None, None, None) on an exception, else
\* the mp3 named after the id of the downloaded track
DownloadMusic(r) ==
    /\ r.pc = "download_music"
    /\ \/ /\ Put(r, [r EXCEPT !.pc = "cb_deliver", !.filename = None])
          /\ UNCHANGED disk
       \/ LET f == Mp3Path(UrlId(r.song_info.url))
          IN  /\ disk' = disk \cup {f}
              /\ Put(r, [r EXCEPT !.pc = "cb_deliver", !.filename = f])
    /\ UNCHANGED <<music_cache, buttons>>

\* line 488 and the answer_audio call
CbDeliver(r) ==
    /\ r.pc = "cb_deliver"
    /\ Put(r, IF FileOk(r.filename, disk)
              THEN [r EXCEPT !.pc = "cb_answer_audio",
                                !.short_key = "", !.video_id = "",
                                !.song_info = None,
                                !.sends = <<"answer_audio">>]
              ELSE Finish([r EXCEPT !.status_msg = "download_failed"], disk))
    /\ UNCHANGED <<disk, music_cache, buttons>>

\* the awaited answer_audio ends
CbAudioSent(r) ==
    /\ r.pc = "cb_answer_audio"
    /\ \E result \in SendOutcomes(r.filename, disk) :
          Put(r, [r EXCEPT
                    !.results = <<result>>,
                    !.pc = IF result = "ok" THEN "cb_message_delete" ELSE "cb_except"])
    /\ UNCHANGED <<disk, music_cache, buttons>>

\* `await callback.message.delete()`, then the finally block
CbMessageDelete(r) ==
    /\ r.pc = "cb_message_delete"
    /\ \/ /\ disk' = Finally(r.filename, disk)
          /\ Put(r, Finish([r EXCEPT !.status_msg = "deleted"], disk'))
       \/ /\ Put(r, [r EXCEPT !.pc = "cb_except"])
          /\ UNCHANGED disk
    /\ UNCHANGED <<music_cache, buttons>>

\* the except block, then the finally block
CbExcept(r) ==
    /\ r.pc = "cb_except"
    /\ disk' = Finally(r.filename, disk)
    /\ \E msg \in {"send_error", r.status_msg} :
          Put(r, Finish([r EXCEPT !.status_msg = msg], disk'))
    /\ UNCHANGED <<music_cache, buttons>>

\* --------------------------------------------------------- specifications
Next ==
    \/ \E text \in Texts : Receive(text)
    \/ \E v \in VideoIds : Select(v)
    \/ \E r \in Runs : InstaloaderDownload(r)
    \/ \E r \in Runs : InstaloaderGlob(r)
    \/ \E r \in Runs : CheckInstaloader(r)
    \/ \E r \in Runs : YtdlpDownload(r)
    \/ \E r \in Runs : CheckYtdlp(r)
    \/ \E r \in Runs : Deliver(r)
    \/ \E r \in Runs : PrimarySent(r)
    \/ \E r \in Runs : ExtractReelsAudio(r)
    \/ \E r \in Runs : AudioCheck(r)
    \/ \E r \in Runs : AudioSent(r)
    \/ \E r \in Runs : StatusDelete(r)
    \/ \E r \in Runs : Except(r)
    \/ \E r \in Runs : SearchMusic(r)
    \/ \E r \in Runs : ShowResults(r)
    \/ \E r \in Runs : DownloadMusic(r)
    \/ \E r \in Runs : CbDeliver(r)
    \/ \E r \in Runs : CbAudioSent(r)
    \/ \E r \in Runs : CbMessageDelete(r)
    \/ \E r \in Runs : CbExcept(r)

\* the bot under concurrent updates
Spec == Init /\ [][Next]_vars

\* the dispatcher alone, on one message: every text of at most MaxTextLen
\* tokens
NextClassify == h = EmptyBag /\ \E text \in AllTexts : Receive(text)

SpecClassify == Init /\ [][NextClassify]_vars

\* ================================================================ claims
\* what became of the message of run r
IsLink(r) == r.handler = "handle_instagram_link"
IsSearch(r) == r.handler = "handle_music_search" /\ r.status_msg # "ignored"
IsIgnored(r) == r.handler = "handle_music_search" /\ r.status_msg = "ignored"
IsStart(r) == r.handler = "cmd_start"
Received(r) == r.text # << >>

\* C6, as stated: every text message is handled as an Instagram link (when
\* it matches an Instagram URL pattern), as a music search (any other text
\* of at least 2 characters after stripping that does not start with '/')
\* or ignored, never as both a link and a search, and extract_shortcode
\* extracts a shortcode from every message handled as a link.
C6_AsStated ==
    \A r \in Runs : Received(r) =>
        LET matches == extract_shortcode(Url(r)) # None
        IN  /\ IsLink(r) \/ IsSearch(r) \/ IsIgnored(r)
            /\ IsLink(r) <=> matches
            /\ IsSearch(r) <=>
                  (~matches /\ StrLen(Url(r)) >= 2 /\ ~IsCommandLike(Url(r)))
            /\ ~(IsLink(r) /\ IsSearch(r))
            /\ IsLink(r) => matches

\* C6, amended: a text message whose first word is /start is greeted; every
\* other one is handled as an Instagram link exactly when it contains
\* "instagram.com" (whether or not a shortcode can be extracted from it), as
\* a music search exactly when it does not contain it, has at least 2
\* characters after stripping and does not start with '/', and is ignored
\* otherwise; no message is handled in two of these ways.
C6_Classification ==
    \A r \in Runs : Received(r) =>
        LET start == CommandStart(r.text)
            insta == Contains(r.text, IG)
            query == StrLen(Url(r)) >= 2 /\ ~IsCommandLike(Url(r))
        IN  /\ IsStart(r) <=> start
            /\ IsLink(r) <=> (~start /\ insta)
            /\ IsSearch(r) <=> (~start /\ ~insta /\ query)
            /\ IsIgnored(r) <=> (~start /\ ~insta /\ ~query)
            /\ Cardinality({k \in {"start", "link", "search", "ignored"} :
                  \/ k = "start" /\ IsStart(r)
                  \/ k = "link" /\ IsLink(r)
                  \/ k = "search" /\ IsSearch(r)
                  \/ k = "ignored" /\ IsIgnored(r)}) = 1

\* a message handled as a link from which no shortcode can be extracted
C6_Witness ==
    \E r \in Runs :
        /\ Received(r)
        /\ IsLink(r)
        /\ r.pc = "download_with_instaloader"
        /\ extract_shortcode(Url(r)) = None

IsCallback(r) == r.handler = "handle_music_callback"
Done(r) == r.pc = "done"
\* the run entered its delivery block: it issued a send
Delivered(r) == r.sends # << >>
\* the run that takes this step, as it was before it
Stepping == BagToSet(h (-) h')

\* the run this step moves or starts, as it is after it
Moved == BagToSet(h' (-) h)

\* run r takes this step and goes on as q
Steps(r, q) == r \in Stepping /\ q \in Moved

\* this step starts the run q
Starts(q) == Stepping = {} /\ q \in Moved

\* C1, as stated: whenever a send call for a downloaded file is in flight
\* (issued and not yet returned or raised, so the file is still to be read),
\* the file is on disk; no other handler's cleanup removes it first.
C1_FileOnDiskWhileSending ==
    \A r \in Runs :
        /\ r.pc \in {"answer_primary", "cb_answer_audio"} => r.filename \in disk
        /\ r.pc = "answer_audio" => r.audio_path \in disk

\* C2: download_instagram_content tries instaloader first, calls yt-dlp
\* exactly when instaloader gave None or a path that is not on disk,
\* returns None exactly when both attempts gave None or a missing path, and
\* a path it returns is on disk when it returns.
C2_Calls ==
    \A r \in Runs : IsLink(r) =>
        /\ r.pc \in {"download_with_instaloader", "glob", "check_instaloader"}
              => r.insta = "" /\ r.yt = ""
        /\ r.pc \in {"download_with_ytdlp", "check_ytdlp"}
              => r.insta \in {"none", "missing"} /\ r.yt = ""
        /\ r.pc = "deliver" =>
              /\ r.insta \in {"none", "missing", "ok"}
              /\ r.yt # "" <=> r.insta \in {"none", "missing"}
              /\ r.filename # None => r.insta = "ok" \/ r.yt = "ok"
              /\ r.filename = None <=>
                    (r.insta \in {"none", "missing"} /\ r.yt \in {"none", "missing"})

C2_Return ==
    \A r \in Stepping : \A q \in Moved :
        (Steps(r, q) /\ r.pc \in {"check_instaloader", "check_ytdlp"}
            /\ q.pc = "deliver" /\ q.filename # None)
        => q.filename \in disk'

C2_Orchestrator == [](C2_Calls) /\ [][C2_Return]_vars

\* the fallback has run after instaloader gave a path that was gone, and
\* download_instagram_content returns yt-dlp's file
C2_Witness ==
    \E r \in Runs :
        /\ r.pc = "deliver"
        /\ r.insta = "missing"
        /\ r.yt = "ok"
        /\ r.filename \in disk

C4_ButtonTarget ==
    \A r \in Runs :
        r.pc = "download_music" => r.song_info.url = WatchUrl(r.video_id)

\* C5: no step removes a key from music_cache; only search_music changes
\* the cache; a step of handle_music_callback leaves it unchanged; and the
\* selection of a key this process has offered finds its entry.
C5_Step ==
    /\ DOMAIN music_cache \subseteq DOMAIN music_cache'
    /\ music_cache' # music_cache =>
          \E r \in Stepping : \E q \in Moved :
              Steps(r, q) /\ r.pc = "search_music" /\ q.pc = "show_results"
    /\ \A q \in Moved :
          q.handler = "handle_music_callback" => music_cache' = music_cache
    /\ \A q \in Moved :
          (Starts(q) /\ q.handler = "handle_music_callback"
              /\ \E b \in buttons : b[1] = q.short_key)
          => q.pc = "download_music"

C5_Offered == \A b \in buttons : b[1] \in DOMAIN music_cache

C5_CacheGrows == [](C5_Offered) /\ [][C5_Step]_vars

\* two keys are cached and a selection has found its entry
C5_Witness ==
    /\ Cardinality(DOMAIN music_cache) = 2
    /\ \E r \in Runs : IsCallback(r) /\ r.pc = "download_music"

\* C7: a run of handle_instagram_link that found its downloaded file issues
\* one primary send, chosen by the lower-cased extension, and the run
\* removes the file only after that send has returned or raised.
PrimarySends == {"answer_video", "answer_photo", "answer_document"}

KindByExtension(f) ==
    IF Lower(Ext(f)) \in {".mp4", ".mkv", ".mov"} THEN "answer_video"
    ELSE IF Lower(Ext(f)) \in {".jpg", ".jpeg", ".png", ".webp"} THEN "answer_photo"
    ELSE "answer_document"

C7_Sends ==
    \A r \in Runs : IsLink(r) =>
        /\ (Delivered(r) /\ ~Done(r)) => r.sends[1] = KindByExtension(r.filename)
        /\ Delivered(r) =>
              /\ r.sends[1] \in PrimarySends
              /\ \A i \in 2 .. Len(r.sends) : r.sends[i] \notin PrimarySends
        /\ (Done(r) /\ r.status_msg # "download_failed") => Delivered(r)

C7_Step ==
    \A r \in Stepping : \A q \in Moved :
        /\ (Steps(r, q) /\ IsLink(r) /\ r.pc = "deliver" /\ r.filename \in disk)
              => q.pc = "answer_primary"
        /\ (Steps(r, q) /\ IsLink(r) /\ r.filename \in disk /\ r.filename \notin disk')
              => (r.results # << >> /\ q.pc = "done")

NoSearchYet ==
    \A r \in Runs :
        ~(r.handler = "handle_music_search" /\ r.pc \in {"show_results", "done"}
            /\ r.status_msg # "ignored")

C8_Fresh == NoSearchYet => DOMAIN music_cache = {}

C8_Expired ==
    \A r \in Runs : (IsCallback(r) /\ r.status_msg = "expired") =>
        /\ Done(r)
        /\ r.filename = None
        /\ r.sends = << >>
        /\ r.results = << >>
        /\ r.left = {}

C8_Step ==
    \A q \in Moved :
        (Starts(q) /\ q.handler = "handle_music_callback"
            /\ q.short_key \notin DOMAIN music_cache)
        => /\ q.pc = "done"
           /\ q.status_msg = "expired"
           /\ q.filename = None
           /\ UNCHANGED <<disk, music_cache, buttons>>

C8_ExpiredSelection == [](C8_Fresh /\ C8_Expired) /\ [][C8_Step]_vars

\* a selection answered with the alert while another handler is at work
C8_Witness ==
    \E r, q \in Runs :
        /\ IsCallback(r) /\ Done(r) /\ r.status_msg = "expired"
        /\ q.pc = "search_music"

\* C9, as stated: the file download_with_instaloader returns for shortcode c
\* is named after c.
C9_OwnFile ==
    \A r \in Runs :
        r.pc = "check_instaloader"
        => Stem(r.filename) = extract_shortcode(Url(r))

\* C10, as stated: when a run of handle_instagram_link for which
\* extract_reels_audio produced an audio file finishes, the audio file is
\* not on disk.
C10_AudioGoneAtFinish ==
    \A r \in Runs : (Done(r) /\ IsLink(r)) => "audio" \notin r.left

\* C11, as stated: every finished run of handle_instagram_link that posted
\* the "downloading" status message left that message in exactly one final
\* state: deleted when the delivery completed, the send-error text when a
\* step of the delivery raised, the download-failed text when no file was
\* obtained; the send-error text is shown only when no send of the run
\* succeeded; and answer_audio is issued only after the run's answer_video
\* succeeded.
C11_StatusFinal ==
    \A r \in Runs : (IsLink(r) /\ Done(r)) =>
        LET raised == \E i \in DOMAIN r.results : r.results[i] = "raised"
            sent == \E i \in DOMAIN r.results : r.results[i] = "ok"
        IN  /\ r.status_msg \in {"deleted", "send_error", "download_failed"}
            /\ r.status_msg = "download_failed" <=> ~Delivered(r)
            /\ r.status_msg = "send_error" <=> raised
            /\ r.status_msg = "deleted" <=> (Delivered(r) /\ ~raised)
            /\ r.status_msg = "send_error" => ~sent
            /\ \A i \in DOMAIN r.sends :
                  r.sends[i] = "answer_audio" =>
                      /\ i = 2
                      /\ r.sends[1] = "answer_video"
                      /\ r.results[1] = "ok"

====
